---- MODULE Spec2Model ----
(***************************************************************************)
(* A model of the Pixbin client (src/pixbin/client.py): the three-phase    *)
(* upload with its completion poll, the status and download accessors and  *)
(* the HTTP status to exception mapping.  The remote hosts are the         *)
(* environment: every request action draws its response from a small set   *)
(* of representative responses.                                            *)
(***************************************************************************)
EXTENDS Integers, Sequences, FiniteSets, TLC

VARIABLES
    pc,            \* position of the running call
    method,        \* the public method that was called
    has_pil,       \* module constant HAS_PIL
    given_url,     \* the base_url argument of PixbinClient(...)
    base_url,      \* self.base_url
    api_token,     \* self.api_token
    file_path,     \* upload_file argument: the kind of source
    file_data,     \* what a decoder makes of the bytes read from the source
    url,           \* transform_url: its arguments and the URL it built
    max_wait,      \* upload_file argument
    poll_interval, \* upload_file argument
    image_id,      \* upload_file local / accessor argument
    dims,          \* <<width, height>> returned by _extract_dimensions
    start_time,    \* _wait_for_completion local
    now,           \* time.time()
    max_retries,   \* download_transformed argument
    retry_delay,   \* download_transformed argument
    attempt,       \* download_transformed loop variable
    requests,      \* every request issued so far, in order
    responses,     \* the response to each request, in the same order
    sleeps,        \* every time.sleep issued so far, in order
    handled,       \* the last _handle_errors application: response and what it raised
    outcome        \* how the call ended: returned value or raised exception

\* what the constructor and the import set, and no call changes
config == <<has_pil, given_url, base_url, api_token>>

vars == <<pc, method, config, file_path, file_data, url, max_wait, poll_interval,
          image_id, dims, start_time, now, max_retries, retry_delay, attempt,
          requests, responses, sleeps, handled, outcome>>

----------------------------------------------------------------------------
(* Bounds of the model *)

\* largest max_wait (seconds) upload_file is called with
MaxWait == 3
\* largest max_retries download_transformed is called with
MaxRetries == 3

MaxWaits == -1 .. MaxWait
PollIntervals == {1, 2}
\* seconds a status round trip and an oversleeping time.sleep add to an iteration
Delays == {0, 1}
\* time.time() when the call begins
StartClocks == {5}
RetryCounts == -1 .. MaxRetries
RetryDelays == {1, 2}
\* most trailing slashes on the base_url the client is constructed with
MaxSlashes == 2

----------------------------------------------------------------------------
(* Exceptions *)

None == "<None>"

Err(kind, words, args) == [kind |-> kind, words |-> words, args |-> args]
NoError == Err("NoError", <<>>, <<>>)

----------------------------------------------------------------------------
(* Responses.  transport = "timeout" is a request that got no response     *)
(* (requests raises a RequestException); otherwise status is the HTTP      *)
(* status, text the raw body, json how the body parses, keys the keys of   *)
(* the parsed object, st / error its "status" and "error" values, dkeys    *)
(* the keys of its "data" object, id / ps the "image_id" and               *)
(* "processing_status" values of "data".                                   *)

Resp(status, text, json, keys, st, error, dkeys, id, ps) ==
    [transport |-> "ok", status |-> status, text |-> text, json |-> json,
     keys |-> keys, st |-> st, error |-> error, dkeys |-> dkeys, id |-> id,
     ps |-> ps]

NoResponse ==
    [transport |-> "timeout", status |-> -1, text |-> "", json |-> "nonjson",
     keys |-> {}, st |-> None, error |-> None, dkeys |-> {}, id |-> None,
     ps |-> None]

Plain(status, text) == Resp(status, text, "nonjson", {}, None, None, {}, None, None)
JsonList(status) == Resp(status, "[]", "nondict", {}, None, None, {}, None, None)
JsonError(status, msg) ==
    Resp(status, "{error}", "dict", {"error"}, None, msg, {}, None, None)
JsonStatus(status, st) ==
    Resp(status, "{status}", "dict", {"status"}, st, None, {}, None, None)
JsonData(status, st, dkeys, id, ps) ==
    Resp(status, "{status,data}", "dict", {"status", "data"}, st, None, dkeys, id, ps)

StartKeys == {"image_id", "upload_url", "upload_fields"}
ImageIds == {"uuid-a", "uuid-b"}

ErrorResponses ==
    {Plain(401, "denied"), Plain(413, "too large"), Plain(500, "<html>"),
     JsonError(500, "boom"), JsonList(404), JsonStatus(400, "error"),
     JsonError(401, "boom"), JsonError(413, "boom"), NoResponse}

StartResponses ==
    ErrorResponses
    \cup {JsonData(200, "success", StartKeys, id, None) : id \in ImageIds}
    \cup {JsonData(200, "success", StartKeys \ {k}, "uuid-a", None) : k \in StartKeys}
    \cup {JsonStatus(200, "success"), JsonStatus(200, "error"), JsonError(200, "boom"),
          JsonData(200, "error", StartKeys, "uuid-a", None),
          JsonData(201, "success", StartKeys, "uuid-a", None),
          Plain(200, "<html>"), JsonList(200)}

StoreResponses ==
    {Plain(s, "<xml>") : s \in {200, 301, 400, 401, 403, 413, 500}}
    \cup {NoResponse}

CompleteResponses ==
    ErrorResponses
    \cup {JsonStatus(200, "success"), JsonStatus(200, "error"), JsonError(200, "boom"),
          Plain(200, "<html>"), JsonList(200)}

ProcessingStatuses == {"pending", "processing", "completed", "failed", "expired", "queued"}

StatusResponses ==
    ErrorResponses
    \cup {JsonData(200, "success", {"processing_status"}, None, ps) :
            ps \in ProcessingStatuses}
    \cup {JsonData(200, "success", {}, None, None), JsonStatus(200, "success")}

\* what PIL reports for the uploaded bytes: a decode failure or a size
Decodes == {<<"fail", 0, 0>>, <<"ok", 640, 480>>, <<"ok", 0, 480>>}

TransformResponses ==
    {Plain(s, "variant") : s \in {200, 202, 204, 301, 401, 404, 413, 500}}
    \cup {NoResponse}

OriginalResponses ==
    ErrorResponses
    \cup {Plain(s, "bytes") : s \in {100, 200, 204, 302, 399, 400, 402, 404, 412,
                                     414, 499, 503, 599}}

----------------------------------------------------------------------------
(* Requests *)

Req(kind, host, bearer, id, d, at) ==
    [kind |-> kind, host |-> host, bearer |-> bearer, image_id |-> id,
     has_dims |-> d[1] > 0 /\ d[2] > 0,
     width |-> IF d[1] > 0 /\ d[2] > 0 THEN d[1] ELSE 0,
     height |-> IF d[1] > 0 /\ d[2] > 0 THEN d[2] ELSE 0,
     at |-> at]

NoDims == <<0, 0>>

\* a request through self.session, which carries the headers set in __init__
session_request(kind, id, d, at) == Req(kind, "api", TRUE, id, d, at)

\* a request through the requests module itself: no session, no headers of the client
plain_request_on_session(kind, host, id, d, at) == Req(kind, host, TRUE, id, d, at)

plain_request(kind, host, id, d, at) == Req(kind, host, FALSE, id, d, at)

----------------------------------------------------------------------------
(* Strings are sequences of pieces; "/" is a piece of its own. *)

Slashes(k) == [i \in 1 .. k |-> "/"]

DefaultUrl == <<"https:", "/", "/", "pixbin.net">>
Hosts == {<<>>, DefaultUrl, <<"http:", "/", "/", "localhost:8000", "/", "img">>}
BaseUrls == {h \o Slashes(k) : h \in Hosts, k \in 0 .. MaxSlashes}
ApiTokens == {"token-a", "token-b"}
ParamStrings ==
    {<<"resize:300x300:fit">>, <<"crop:center", ",", "resize:200x200:exact">>, <<>>}

\* str.rstrip("/")
rstrip_kept(str) == str

RECURSIVE rstrip_loop(_)
rstrip_loop(str) ==
    IF str # <<>> /\ str[Len(str)] = "/"
    THEN rstrip_loop(SubSeq(str, 1, Len(str) - 1))
    ELSE str

rstrip(str) == rstrip_loop(str)

\* PixbinClient._generate_signature: the first 16 hex characters of the HMAC-SHA256
\* of "{image_id}:{params}" under the token, kept as a term of its inputs
generate_signature(token, id, params) ==
    <<"hmac16[", token, "|", id, ":">> \o params \o <<"]">>

\* PixbinClient.transform_url
transform_url_of(base, token, id, params, include_host) ==
    LET path == <<"/", "api", "/", "v1", "/", "image", "/">>
                \o generate_signature(token, id, params)
                \o <<"/">> \o params \o <<"/", id>>
    IN  IF include_host THEN base \o path ELSE path

----------------------------------------------------------------------------
(* The client's pure steps *)

\* dict.get(key) on the parsed body
dict_get_status(r) == IF "status" \in r.keys THEN r.st ELSE None

\* PixbinClient._handle_errors
handle_errors_no413(r) ==
    IF r.status = 401
    THEN Err("PixbinAuthError", <<"Authentication", "failed">>, <<r.text>>)
    ELSE IF r.status >= 400
    THEN Err("PixbinError", <<"API", "error">>,
             <<ToString(r.status),
               IF r.json = "dict" /\ "error" \in r.keys THEN r.error ELSE r.text>>)
    ELSE NoError

handle_errors(r) ==
    IF r.status = 401
    THEN Err("PixbinAuthError", <<"Authentication", "failed">>, <<r.text>>)
    ELSE IF r.status = 413
    THEN Err("PixbinQuotaError", <<"Quota", "exceeded">>, <<r.text>>)
    ELSE IF r.status >= 400
    THEN Err("PixbinError", <<"API", "error">>,
             <<ToString(r.status),
               IF r.json = "dict" /\ "error" \in r.keys THEN r.error ELSE r.text>>)
    ELSE NoError

\* PixbinClient._get / _post: the session call, then _handle_errors
api_call_unchecked(r) ==
    IF r.transport # "ok"
    THEN Err("RequestException", <<"timed", "out">>, <<>>)
    ELSE NoError

api_call(r) ==
    IF r.transport # "ok"
    THEN Err("RequestException", <<"timed", "out">>, <<>>)
    ELSE handle_errors(r)

\* response.json() followed by a .get on the result
json_dict(r) ==
    IF r.json = "nonjson" THEN Err("JSONDecodeError", <<>>, <<>>)
    ELSE IF r.json = "nondict" THEN Err("AttributeError", <<>>, <<"get">>)
    ELSE NoError

\* Response.raise_for_status
raise_for_status(r) ==
    IF r.status >= 400 /\ r.status < 600
    THEN Err("HTTPError", <<>>, <<ToString(r.status)>>)
    ELSE NoError

\* upload_file, phase 1: what the start response raises
start_envelope_unchecked(r) ==
    IF "data" \notin r.keys THEN Err("KeyError", <<>>, <<"data">>)
    ELSE IF "image_id" \notin r.dkeys THEN Err("KeyError", <<>>, <<"image_id">>)
    ELSE IF "upload_url" \notin r.dkeys THEN Err("KeyError", <<>>, <<"upload_url">>)
    ELSE IF "upload_fields" \notin r.dkeys THEN Err("KeyError", <<>>, <<"upload_fields">>)
    ELSE NoError

start_envelope(r) ==
    IF dict_get_status(r) # "success"
    THEN Err("PixbinUploadError", <<"Upload", "start", "failed">>, <<r.text>>)
    ELSE IF "data" \notin r.keys THEN Err("KeyError", <<>>, <<"data">>)
    ELSE IF "image_id" \notin r.dkeys THEN Err("KeyError", <<>>, <<"image_id">>)
    ELSE IF "upload_url" \notin r.dkeys THEN Err("KeyError", <<>>, <<"upload_url">>)
    ELSE IF "upload_fields" \notin r.dkeys THEN Err("KeyError", <<>>, <<"upload_fields">>)
    ELSE NoError

start_result(r) ==
    IF api_call(r) # NoError THEN api_call(r)
    ELSE IF json_dict(r) # NoError THEN json_dict(r)
    ELSE start_envelope(r)

\* upload_file: image_id = start_data["data"]["image_id"]
start_image_id_unset(r) == None

start_image_id(r) == r.id

\* upload_file: file_path.exists()
source_exists_unchecked(source) == TRUE

source_exists(source) == source # "missing"

\* upload_file, phase 2: the try / except around the storage POST
store_result_swallowed(r) == NoError

store_result(r) ==
    IF r.transport # "ok"
    THEN Err("PixbinUploadError", <<"S3", "upload", "failed">>, <<"RequestException">>)
    ELSE IF raise_for_status(r) # NoError
    THEN Err("PixbinUploadError", <<"S3", "upload", "failed">>, <<"HTTPError">>)
    ELSE NoError

\* PixbinClient._extract_dimensions
extract_dimensions_unguarded(pil, decode) == <<decode[2], decode[3]>>

extract_dimensions(pil, decode) ==
    IF ~pil THEN <<0, 0>>
    ELSE IF decode[1] = "fail" THEN <<0, 0>>
    ELSE <<decode[2], decode[3]>>

\* upload_file, phase 3: what the complete response raises
complete_result(r) ==
    IF api_call(r) # NoError THEN api_call(r)
    ELSE IF json_dict(r) # NoError THEN json_dict(r)
    ELSE IF dict_get_status(r) # "success"
    THEN Err("PixbinUploadError", <<"Upload", "completion", "failed">>, <<r.text>>)
    ELSE NoError

\* upload_file: if max_wait > 0
should_poll_nonneg(mw) == mw >= 0

should_poll(mw) == mw > 0

\* _wait_for_completion: while time.time() - start_time < max_wait
loop_test_inclusive(t, t0, mw) == t - t0 <= mw

loop_test(t, t0, mw) == t - t0 < mw

\* _wait_for_completion: time.sleep(poll_interval) moves the clock on
time_sleep_skipped(t, secs) == t

time_sleep(t, secs) == t + secs

\* get_status: data.get("data", {}) and then .get("processing_status")
processing_status_of(r) ==
    IF "data" \in r.keys /\ "processing_status" \in r.dkeys THEN r.ps ELSE None

get_status_error(r) ==
    IF api_call(r) # NoError THEN api_call(r) ELSE json_dict(r)

\* _wait_for_completion: the branch taken on a processing_status
poll_verdict_no_return(ps) ==
    IF ps \in {"failed", "expired"} THEN "raise" ELSE "sleep"

poll_verdict_known_only(ps) ==
    IF ps = "completed" THEN "return"
    ELSE IF ps \in {"pending", "processing"} THEN "sleep"
    ELSE "raise"

poll_verdict_failed_only(ps) ==
    IF ps = "completed" THEN "return"
    ELSE IF ps = "failed" THEN "raise"
    ELSE "sleep"

poll_verdict(ps) ==
    IF ps = "completed" THEN "return"
    ELSE IF ps \in {"failed", "expired"} THEN "raise"
    ELSE "sleep"

\* download_transformed: for attempt in range(max_retries)
more_attempts_inclusive(a, n) == a <= n

more_attempts(a, n) == a < n

\* download_transformed: if attempt < max_retries - 1
retry_again_always(a, n) == a < n

retry_again(a, n) == a < n - 1

----------------------------------------------------------------------------
(* How a call ends *)

Running == [kind |-> "running", value |-> None, err |-> NoError]
Returned(v) == [kind |-> "returned", value |-> v, err |-> NoError]
Raised(e) == [kind |-> "raised", value |-> None, err |-> e]

NotHandled == [resp |-> NoResponse, err |-> NoError]
Handled(r) == IF r.transport = "ok" THEN [resp |-> r, err |-> handle_errors(r)] ELSE handled

----------------------------------------------------------------------------
(* State machine *)

NoUrl == [include_host |-> FALSE, params |-> <<>>, value |-> <<>>]
NoData == <<"fail", 0, 0>>

\* the state after PixbinClient(api_token, base_url) (lines 58-70)
Constructed(urls, tokens) ==
    /\ pc = "idle"
    /\ method = "none"
    /\ has_pil \in BOOLEAN
    /\ given_url \in urls
    /\ base_url = rstrip(given_url)
    /\ api_token \in tokens
    /\ file_path = "none"
    /\ file_data = NoData
    /\ url = NoUrl
    /\ max_wait = 0
    /\ poll_interval = 1
    /\ image_id = None
    /\ dims = NoDims
    /\ start_time = 0
    /\ now \in StartClocks
    /\ max_retries = 0
    /\ retry_delay = 0
    /\ attempt = 0
    /\ requests = <<>>
    /\ responses = <<>>
    /\ sleeps = <<>>
    /\ handled = NotHandled
    /\ outcome = Running

Init == Constructed({DefaultUrl \o Slashes(1)}, {"token-a"})

Finish(o) == pc' = "done" /\ outcome' = o

Exchange(q, r) ==
    /\ requests' = Append(requests, q)
    /\ responses' = Append(responses, r)

\* upload_file is called: the source is resolved (lines 148-169)
upload_file ==
    /\ pc = "idle"
    /\ \E source \in {"path", "missing", "filelike"}, mw \in MaxWaits, pi \in PollIntervals,
          data \in Decodes :
        /\ method' = "upload_file"
        /\ max_wait' = mw
        /\ poll_interval' = pi
        /\ file_path' = source
        /\ IF ~source_exists(source)
           THEN /\ Finish(Raised(Err("PixbinUploadError", <<"File", "not", "found">>, <<>>)))
                /\ file_data' = NoData
           ELSE /\ pc' = "start"
                /\ outcome' = outcome
                /\ file_data' = IF source = "missing" THEN NoData ELSE data
    /\ UNCHANGED <<config, url, image_id, dims, start_time, now, max_retries,
                   retry_delay, attempt, requests, responses, sleeps, handled>>

\* upload_file, phase 1: POST /api/v1/upload/start (lines 171-190)
upload_start ==
    /\ pc = "start"
    /\ \E r \in StartResponses :
        /\ Exchange(session_request("start", None, NoDims, now), r)
        /\ handled' = Handled(r)
        /\ IF start_result(r) # NoError
           THEN Finish(Raised(start_result(r))) /\ image_id' = image_id
           ELSE pc' = "store" /\ image_id' = start_image_id(r) /\ outcome' = outcome
    /\ UNCHANGED <<method, config, file_path, file_data, url, max_wait,
                   poll_interval, dims, start_time, now, max_retries,
                   retry_delay, attempt, sleeps>>

\* upload_file, phase 2: POST to upload_url, then the dimension probe (lines 192-203)
upload_store ==
    /\ pc = "store"
    /\ \E r \in StoreResponses :
        /\ Exchange(plain_request("store", "storage", None, NoDims, now), r)
        /\ IF store_result(r) # NoError
           THEN Finish(Raised(store_result(r))) /\ dims' = dims
           ELSE pc' = "complete" /\ dims' = extract_dimensions(has_pil, file_data)
                /\ outcome' = outcome
    /\ UNCHANGED <<method, config, file_path, file_data, url, max_wait,
                   poll_interval, image_id, start_time, now, max_retries,
                   retry_delay, attempt, sleeps, handled>>

\* upload_file, phase 3: POST /api/v1/upload/complete, then the decision to poll
\* (lines 205-221) and the first line of _wait_for_completion (line 225)
upload_complete ==
    /\ pc = "complete"
    /\ \E r \in CompleteResponses :
        /\ Exchange(session_request("complete", image_id, dims, now), r)
        /\ handled' = Handled(r)
        /\ IF complete_result(r) # NoError
           THEN Finish(Raised(complete_result(r))) /\ start_time' = start_time
           ELSE IF should_poll(max_wait)
           THEN pc' = "poll" /\ start_time' = now /\ outcome' = outcome
           ELSE Finish(Returned(image_id)) /\ start_time' = start_time
    /\ UNCHANGED <<method, config, file_path, file_data, url, max_wait,
                   poll_interval, image_id, dims, now, max_retries, retry_delay,
                   attempt, sleeps>>

\* _wait_for_completion: one iteration of the loop (lines 226-235)
wait_poll ==
    /\ pc = "poll"
    /\ loop_test(now, start_time, max_wait)
    /\ \E r \in StatusResponses, delay \in Delays :
        /\ Exchange(session_request("status", image_id, NoDims, now), r)
        /\ handled' = Handled(r)
        /\ IF get_status_error(r) # NoError
           THEN /\ Finish(Raised(get_status_error(r)))
                /\ now' = now + delay
                /\ sleeps' = sleeps
           ELSE IF poll_verdict(processing_status_of(r)) = "return"
           THEN /\ Finish(Returned(image_id))
                /\ now' = now + delay
                /\ sleeps' = sleeps
           ELSE IF poll_verdict(processing_status_of(r)) = "raise"
           THEN /\ Finish(Raised(Err("PixbinUploadError", <<"Processing", "failed">>,
                                     <<processing_status_of(r)>>)))
                /\ now' = now + delay
                /\ sleeps' = sleeps
           ELSE /\ pc' = "poll"
                /\ outcome' = outcome
                /\ sleeps' = Append(sleeps, poll_interval)
                /\ now' = time_sleep(now + delay, poll_interval)
    /\ UNCHANGED <<method, config, file_path, file_data, url, max_wait,
                   poll_interval, image_id, dims, start_time, max_retries,
                   retry_delay, attempt>>

\* _wait_for_completion: the loop test fails (lines 226, 237)
wait_timeout ==
    /\ pc = "poll"
    /\ ~loop_test(now, start_time, max_wait)
    /\ Finish(Raised(Err("PixbinUploadError", <<"Processing", "timeout", "after">>,
                         <<ToString(max_wait)>>)))
    /\ UNCHANGED <<method, config, file_path, file_data, url, max_wait,
                   poll_interval, image_id, dims, start_time, now, max_retries,
                   retry_delay, attempt, requests, responses, sleeps, handled>>

\* get_status called by the user (lines 254-256)
get_status ==
    /\ pc = "idle"
    /\ \E id \in ImageIds, r \in StatusResponses :
        /\ method' = "get_status"
        /\ image_id' = id
        /\ Exchange(session_request("status", id, NoDims, now), r)
        /\ handled' = Handled(r)
        /\ IF get_status_error(r) # NoError
           THEN Finish(Raised(get_status_error(r)))
           ELSE Finish(Returned(processing_status_of(r)))
    /\ UNCHANGED <<config, file_path, file_data, url, max_wait, poll_interval,
                   dims, start_time, now, max_retries, retry_delay, attempt,
                   sleeps>>

\* download_original (lines 359-360)
download_original ==
    /\ pc = "idle"
    /\ \E id \in ImageIds, r \in OriginalResponses :
        /\ method' = "download_original"
        /\ image_id' = id
        /\ Exchange(session_request("original", id, NoDims, now), r)
        /\ handled' = Handled(r)
        /\ IF api_call(r) # NoError
           THEN Finish(Raised(api_call(r)))
           ELSE Finish(Returned(r.text))
    /\ UNCHANGED <<config, file_path, file_data, url, max_wait, poll_interval,
                   dims, start_time, now, max_retries, retry_delay, attempt,
                   sleeps>>

\* download_transformed is called (lines 328-330)
download_transformed ==
    /\ pc = "idle"
    /\ \E id \in ImageIds, params \in ParamStrings, n \in RetryCounts,
          delay \in RetryDelays :
        /\ method' = "download_transformed"
        /\ image_id' = id
        /\ max_retries' = n
        /\ retry_delay' = delay
        /\ url' = [include_host |-> TRUE, params |-> params,
                   value |-> transform_url_of(base_url, api_token, id, params, TRUE)]
    /\ pc' = "attempt"
    /\ attempt' = 0
    /\ UNCHANGED <<config, file_path, file_data, max_wait, poll_interval, dims,
                   start_time, now, requests, responses, sleeps, handled, outcome>>

\* download_transformed: one iteration of the for loop (lines 330-345)
transformed_attempt ==
    /\ pc = "attempt"
    /\ more_attempts(attempt, max_retries)
    /\ \E r \in TransformResponses :
        /\ Exchange(plain_request("transformed", "api", image_id, NoDims, now), r)
        /\ IF r.transport # "ok"
           THEN /\ Finish(Raised(Err("RequestException", <<"timed", "out">>, <<>>)))
                /\ UNCHANGED <<attempt, sleeps>>
           ELSE IF r.status = 200
           THEN /\ Finish(Returned(r.text))
                /\ UNCHANGED <<attempt, sleeps>>
           ELSE IF r.status = 202
           THEN IF retry_again(attempt, max_retries)
                THEN /\ sleeps' = Append(sleeps, retry_delay)
                     /\ attempt' = attempt + 1
                     /\ UNCHANGED <<pc, outcome>>
                ELSE /\ Finish(Raised(Err("PixbinError",
                                 <<"Transformation", "timeout", "-", "variant", "still",
                                   "processing">>, <<>>)))
                     /\ UNCHANGED <<attempt, sleeps>>
           ELSE IF raise_for_status(r) # NoError
           THEN /\ Finish(Raised(raise_for_status(r)))
                /\ UNCHANGED <<attempt, sleeps>>
           ELSE /\ attempt' = attempt + 1
                /\ UNCHANGED <<pc, outcome, sleeps>>
    /\ UNCHANGED <<method, config, file_path, file_data, url, max_wait,
                   poll_interval, image_id, dims, start_time, now, max_retries,
                   retry_delay, handled>>

\* download_transformed: the loop is exhausted (line 347)
transformed_exhausted ==
    /\ pc = "attempt"
    /\ ~more_attempts(attempt, max_retries)
    /\ Finish(Raised(Err("PixbinError",
                         <<"Failed", "to", "download", "transformed", "image">>, <<>>)))
    /\ UNCHANGED <<method, config, file_path, file_data, url, max_wait,
                   poll_interval, image_id, dims, start_time, now, max_retries,
                   retry_delay, attempt, requests, responses, sleeps, handled>>

\* transform_url called by the user (lines 296-301)
transform_url ==
    /\ pc = "idle"
    /\ \E id \in ImageIds, params \in ParamStrings, include_host \in BOOLEAN :
        /\ method' = "transform_url"
        /\ image_id' = id
        /\ url' = [include_host |-> include_host, params |-> params,
                   value |-> transform_url_of(base_url, api_token, id, params,
                                              include_host)]
        /\ Finish(Returned(transform_url_of(base_url, api_token, id, params,
                                            include_host)))
    /\ UNCHANGED <<config, file_path, file_data, max_wait, poll_interval, dims,
                   start_time, now, max_retries, retry_delay, attempt, requests,
                   responses, sleeps, handled>>

Next ==
    \/ upload_file
    \/ upload_start
    \/ upload_store
    \/ upload_complete
    \/ wait_poll
    \/ wait_timeout
    \/ get_status
    \/ download_original
    \/ download_transformed
    \/ transformed_attempt
    \/ transformed_exhausted
    \/ transform_url

Spec == Init /\ [][Next]_vars

\* the URL builder alone, over every way of constructing the client
InitUrl == Constructed(BaseUrls, ApiTokens)
SpecUrl == InitUrl /\ [][transform_url]_vars

----------------------------------------------------------------------------
(* Vocabulary of the properties, stated on the logged requests and         *)
(* responses and independently of the client's own steps.                  *)

Uploading == method = "upload_file"
Sent == DOMAIN requests
KindAt(i) == requests[i].kind

Answered(r) == r.transport = "ok"
JsonObject(r) == Answered(r) /\ r.json = "dict"
ReportsSuccess(r) == JsonObject(r) /\ "status" \in r.keys /\ r.st = "success"

\* a start response the upload can go on from
StartSucceeded(r) ==
    /\ Answered(r) /\ r.status < 400
    /\ ReportsSuccess(r)
    /\ "data" \in r.keys /\ StartKeys \subseteq r.dkeys

\* a store exchange that did not raise: the storage host answered with a status
\* below 400
StoreSucceeded(r) == Answered(r) /\ r.status < 400

CompleteSucceeded(r) == Answered(r) /\ r.status < 400 /\ ReportsSuccess(r)

StepSucceeded(kind, r) ==
    CASE kind = "start" -> StartSucceeded(r)
      [] kind = "store" -> StoreSucceeded(r)
      [] kind = "complete" -> CompleteSucceeded(r)
      [] OTHER -> TRUE

\* a status response that carries processing_status ps
ReportsProcessing(r, ps) ==
    /\ Answered(r) /\ r.status < 400 /\ JsonObject(r)
    /\ "data" \in r.keys /\ "processing_status" \in r.dkeys /\ r.ps = ps

\* a status response that neither ends the poll nor raises
NotReady(r) ==
    /\ Answered(r) /\ r.status < 400 /\ JsonObject(r)
    /\ ~ReportsProcessing(r, "completed")
    /\ ~ReportsProcessing(r, "failed")
    /\ ~ReportsProcessing(r, "expired")

\* the words and the arguments of an exception's message
Mentions(e, w) == \E i \in DOMAIN e.words : e.words[i] = w
Carries(e, a) == \E i \in DOMAIN e.args : e.args[i] = a
RaisedKind(k) == outcome.kind = "raised" /\ outcome.err.kind = k
PhraseIn(e, w1, w2) == \E i \in DOMAIN e.words : i + 1 \in DOMAIN e.words /\ e.words[i] = w1 /\ e.words[i + 1] = w2

----------------------------------------------------------------------------
C3_ReturnsOnCompleted ==
    (Uploading /\ max_wait > 0) =>
        /\ \A i \in Sent :
               (KindAt(i) = "status" /\ ReportsProcessing(responses[i], "completed")) =>
                   /\ i = Len(requests)
                   /\ pc = "done"
                   /\ outcome = Returned(responses[1].id)
                   /\ \A j \in 4 .. (i - 1) : ~ReportsProcessing(responses[j], "completed")
        /\ outcome.kind = "returned" =>
               /\ Len(requests) >= 4
               /\ ReportsProcessing(responses[Len(responses)], "completed")

C3_Witness ==
    /\ Uploading
    /\ Len(requests) = 6
    /\ ReportsProcessing(responses[4], "pending")
    /\ ReportsProcessing(responses[5], "processing")
    /\ ReportsProcessing(responses[6], "completed")
    /\ outcome = Returned(responses[1].id)

(* C4: in the poll phase a status response that reports "failed" or        *)
(* "expired" makes upload_file raise UploadError naming that status; it is *)
(* the last status call and no image_id is returned.                       *)
C4_FailedOrExpiredRaises ==
    Uploading =>
        \A i \in Sent : \A ps \in {"failed", "expired"} :
            (KindAt(i) = "status" /\ ReportsProcessing(responses[i], ps)) =>
                /\ i = Len(requests)
                /\ pc = "done"
                /\ RaisedKind("PixbinUploadError")
                /\ Carries(outcome.err, ps)
                /\ outcome.value = None

C4_Witness ==
    /\ Uploading
    /\ Len(requests) = 5
    /\ ReportsProcessing(responses[4], "pending")
    /\ ReportsProcessing(responses[5], "expired")
    /\ RaisedKind("PixbinUploadError")

(* C5: with max_wait > 0 no status call is issued once the time elapsed    *)
(* since polling began has reached max_wait, and an upload whose status    *)
(* responses all stay non-terminal ends, once the elapsed time has reached *)
(* max_wait, with an UploadError that mentions "timeout".                  *)
C5_Timeout ==
    (Uploading /\ max_wait > 0) =>
        /\ \A i \in Sent :
               KindAt(i) = "status" => requests[i].at - start_time < max_wait
        /\ (pc = "done" /\ Len(requests) >= 3 /\ CompleteSucceeded(responses[3])
              /\ \A i \in 4 .. Len(requests) : NotReady(responses[i])) =>
               /\ RaisedKind("PixbinUploadError")
               /\ Mentions(outcome.err, "timeout")
               /\ now - start_time >= max_wait
        /\ (outcome.kind = "raised" /\ Mentions(outcome.err, "timeout")) =>
               now - start_time >= max_wait

C5_Witness ==
    /\ Uploading
    /\ Len(requests) = 5
    /\ \A i \in 4 .. 5 : ReportsProcessing(responses[i], "pending")
    /\ RaisedKind("PixbinUploadError")
    /\ Mentions(outcome.err, "timeout")

(* C6: with max_wait <= 0 upload_file issues no status call, and once the  *)
(* complete response reports success it returns the image_id of the start  *)
(* response without polling.                                               *)
C6_NoPollWithoutWait ==
    (Uploading /\ max_wait <= 0) =>
        /\ \A i \in Sent : KindAt(i) # "status"
        /\ (Len(requests) = 3 /\ CompleteSucceeded(responses[3])) =>
               /\ pc = "done"
               /\ outcome = Returned(responses[1].id)

C6_Witness ==
    /\ Uploading
    /\ max_wait = 0
    /\ Len(requests) = 3
    /\ outcome.kind = "returned"

(* C7: the mapping applied after every _get/_post is a total function of   *)
(* the HTTP status: 401 gives AuthError, 413 QuotaError, any other status  *)
(* >= 400 the generic API error carrying the JSON "error" field when the   *)
(* body is a JSON object with that field and the raw body text otherwise,  *)
(* and a status < 400 gives no error; an error it gives is what the call   *)
(* raises.                                                                 *)
C7_ErrorMapping ==
    Answered(handled.resp) =>
        LET s == handled.resp.status
            e == handled.err
            body == handled.resp
        IN  /\ s = 401 => e.kind = "PixbinAuthError"
            /\ s = 413 => e.kind = "PixbinQuotaError"
            /\ (s >= 400 /\ s # 401 /\ s # 413) =>
                   /\ e.kind = "PixbinError"
                   /\ e.args[2] = (IF JsonObject(body) /\ "error" \in body.keys
                                   THEN body.error ELSE body.text)
            /\ s < 400 => e = NoError
            /\ e.kind \in {"PixbinAuthError", "PixbinQuotaError", "PixbinError", "NoError"}
            /\ e # NoError => outcome = Raised(e)

C7_Witness ==
    /\ handled.resp.status = 500
    /\ JsonObject(handled.resp)
    /\ handled.resp.error = "boom"
    /\ RaisedKind("PixbinError")
    /\ Carries(outcome.err, "boom")

(* C8, as claimed: in every public method, each request step of            *)
(* upload_file included, a 401 response makes the method raise AuthError   *)
(* and a 413 response makes it raise QuotaError.                           *)
C8_AsClaimed ==
    \A i \in Sent :
        /\ (Answered(responses[i]) /\ responses[i].status = 401) =>
               RaisedKind("PixbinAuthError")
        /\ (Answered(responses[i]) /\ responses[i].status = 413) =>
               RaisedKind("PixbinQuotaError")

(* C8, amended: a 401 / 413 response to a request made through _get or     *)
(* _post (start, complete, status, original download) raises AuthError /   *)
(* QuotaError; a 401 or 413 from the storage host in the store step raises *)
(* UploadError "S3 upload failed"; a 401 or 413 answer to the signed GET   *)
(* of download_transformed raises the HTTP library's HTTPError.            *)
C8_AuthQuotaOnApiCalls ==
    \A i \in Sent :
        LET r == responses[i] IN
        (Answered(r) /\ r.status \in {401, 413}) =>
            /\ i = Len(requests)
            /\ KindAt(i) \in {"start", "complete", "status", "original"} =>
                   /\ r.status = 401 => RaisedKind("PixbinAuthError")
                   /\ r.status = 413 => RaisedKind("PixbinQuotaError")
            /\ KindAt(i) = "store" =>
                   /\ RaisedKind("PixbinUploadError")
                   /\ PhraseIn(outcome.err, "S3", "upload")
            /\ KindAt(i) = "transformed" => RaisedKind("HTTPError")

C8_Witness ==
    /\ Uploading
    /\ Len(requests) = 2
    /\ responses[2].status = 401
    /\ RaisedKind("PixbinUploadError")

(* C9, as claimed: a start response with HTTP status < 400 whose JSON      *)
(* object does not report "success" together with image_id, upload_url and *)
(* upload_fields (a missing data envelope or a missing field included)     *)
(* makes upload_file raise UploadError "upload start failed", and no store *)
(* request is issued.                                                      *)
C9_AsClaimed ==
    (Uploading /\ Len(requests) >= 1 /\ JsonObject(responses[1])
       /\ responses[1].status < 400 /\ ~StartSucceeded(responses[1])) =>
        /\ Len(requests) = 1
        /\ RaisedKind("PixbinUploadError")
        /\ PhraseIn(outcome.err, "start", "failed")

(* C10, as claimed: a store response whose HTTP status is not 2xx makes    *)
(* upload_file raise UploadError "S3 upload failed", and the complete      *)
(* request is not issued.                                                  *)
C10_AsClaimed ==
    (Uploading /\ Len(requests) >= 2 /\ Answered(responses[2])
       /\ ~(responses[2].status >= 200 /\ responses[2].status < 300)) =>
        /\ Len(requests) = 2
        /\ RaisedKind("PixbinUploadError")
        /\ PhraseIn(outcome.err, "S3", "upload")

----------------------------------------------------------------------------
Transforming == method = "download_transformed"
StatusAt(i) == IF Answered(responses[i]) THEN responses[i].status ELSE -1
Count(S) == Cardinality(S)

(* C11: download_transformed with max_retries >= 1 returns the body of the *)
(* first 200 response; a 202 response before the last attempt is followed  *)
(* by one sleep of retry_delay and another attempt; a 202 response to the   *)
(* last attempt raises "Transformation timeout" with no sleep after it, so  *)
(* that max_retries 202 responses end the call after exactly max_retries    *)
(* GET requests and max_retries - 1 sleeps.                                 *)
C11_RetryOn202 ==
    (Transforming /\ max_retries >= 1) =>
        /\ \A i \in Sent :
               StatusAt(i) = 200 =>
                   /\ i = Len(requests)
                   /\ pc = "done"
                   /\ outcome = Returned(responses[i].text)
        /\ \A i \in Sent :
               (StatusAt(i) = 202 /\ i < max_retries /\ i = Len(requests)) =>
                   /\ pc = "attempt"
                   /\ outcome = Running
                   /\ ENABLED transformed_attempt
        /\ Len(sleeps) = Count({i \in Sent : StatusAt(i) = 202 /\ i < max_retries})
        /\ \A k \in DOMAIN sleeps : sleeps[k] = retry_delay
        /\ \A i \in Sent :
               (StatusAt(i) = 202 /\ i = max_retries) =>
                   /\ i = Len(requests)
                   /\ pc = "done"
                   /\ RaisedKind("PixbinError")
                   /\ PhraseIn(outcome.err, "Transformation", "timeout")
        /\ (pc = "done" /\ requests # <<>> /\ \A i \in Sent : StatusAt(i) = 202) =>
               /\ Len(requests) = max_retries
               /\ Len(sleeps) = max_retries - 1

C11_Witness ==
    /\ Transforming
    /\ max_retries = 3
    /\ Len(requests) = 3
    /\ StatusAt(1) = 202 /\ StatusAt(2) = 202 /\ StatusAt(3) = 200
    /\ outcome = Returned("variant")
    /\ Len(sleeps) = 2

(* C12, as claimed: in download_transformed a response whose status is     *)
(* neither 200 nor 202 and is not 2xx (3xx as well as 4xx and 5xx) ends    *)
(* the call with an error: no GET request follows it, at any attempt.      *)
C12_AsClaimed ==
    Transforming =>
        \A i \in Sent :
            (Answered(responses[i]) /\ ~(StatusAt(i) >= 200 /\ StatusAt(i) < 300)) =>
                /\ i = Len(requests)
                /\ pc = "done" => outcome.kind = "raised"

(* C13: the bearer Authorization header is on a request exactly when the   *)
(* request is one of the API-host JSON calls (start, complete, status,     *)
(* original download); the store request to upload_url and the signed      *)
(* transform fetch carry none, so the token never reaches the storage      *)
(* host.                                                                    *)
C13_BearerOnApiCallsOnly ==
    \A i \in Sent :
        /\ requests[i].bearer <=> KindAt(i) \in {"start", "complete", "status", "original"}
        /\ KindAt(i) \in {"store", "transformed"} => ~requests[i].bearer
        /\ requests[i].host = "storage" => ~requests[i].bearer
        /\ requests[i].host = "storage" <=> KindAt(i) = "store"

C13_Witness ==
    /\ Uploading
    /\ Len(requests) = 4
    /\ ~requests[2].bearer
    /\ requests[1].bearer /\ requests[3].bearer /\ requests[4].bearer

(* C14: the dimension probe never fails upload_file: once the store step   *)
(* went through, the complete request is what comes next whether the       *)
(* bytes decode, fail to decode or no decoder is there; its payload has    *)
(* width and height exactly when a decoder is there and reports both as    *)
(* positive, and is the image_id alone otherwise.                          *)
C14_ProbeNeverFails ==
    Uploading =>
        LET decoded == has_pil /\ file_data[1] = "ok"
            positive == decoded /\ file_data[2] > 0 /\ file_data[3] > 0
        IN  /\ (Len(requests) = 2 /\ StoreSucceeded(responses[2])) =>
                   /\ pc = "complete"
                   /\ outcome = Running
                   /\ ENABLED upload_complete
            /\ Len(requests) >= 3 =>
                   /\ KindAt(3) = "complete"
                   /\ requests[3].has_dims <=> positive
                   /\ positive => /\ requests[3].width = file_data[2]
                                  /\ requests[3].height = file_data[3]
                   /\ ~positive => requests[3].width = 0 /\ requests[3].height = 0

C14_Witness ==
    /\ Uploading
    /\ Len(requests) >= 3
    /\ has_pil
    /\ file_data[1] = "fail"
    /\ KindAt(3) = "complete"
    /\ ~requests[3].has_dims

(* C15: upload_file called with a path that does not exist raises          *)
(* UploadError before any network request: no request of any kind is       *)
(* issued.                                                                  *)
C15_MissingPathNoRequest ==
    (Uploading /\ file_path = "missing") =>
        /\ requests = <<>>
        /\ pc = "done"
        /\ RaisedKind("PixbinUploadError")
        /\ PhraseIn(outcome.err, "not", "found")

C15_Witness ==
    /\ Uploading
    /\ file_path = "missing"
    /\ outcome.kind = "raised"

(* C16: transform_url(image_id, params, include_host=False) is exactly     *)
(* "/api/v1/image/{sig}/{params}/{image_id}", with no scheme or host in    *)
(* front; with include_host=True it is the base URL the client was         *)
(* constructed with, less its trailing slashes, followed by that same      *)
(* path, so that no double slash stands at the junction.                   *)
ExpectedPath ==
    <<"/", "api", "/", "v1", "/", "image", "/">>
    \o generate_signature(api_token, image_id, url.params)
    \o <<"/">> \o url.params \o <<"/", image_id>>

\* the length of given_url without its trailing slashes
StrippedLen ==
    CHOOSE k \in 0 .. Len(given_url) :
        /\ \A j \in (k + 1) .. Len(given_url) : given_url[j] = "/"
        /\ k = 0 \/ given_url[k] # "/"

C16_TransformUrlShape ==
    (method = "transform_url" /\ pc = "done") =>
        LET value == outcome.value
            host == SubSeq(given_url, 1, StrippedLen)
        IN  /\ outcome.kind = "returned"
            /\ ~url.include_host =>
                   /\ value = ExpectedPath
                   /\ value[1] = "/"
            /\ url.include_host =>
                   /\ value = host \o ExpectedPath
                   /\ value[StrippedLen + 1] = "/"
                   /\ StrippedLen > 0 => value[StrippedLen] # "/"

C16_Witness ==
    /\ method = "transform_url"
    /\ pc = "done"
    /\ url.include_host
    /\ Len(given_url) = StrippedLen + 2
    /\ StrippedLen > 0
    /\ outcome.kind = "returned"

(* C17: the poll loop of upload_file terminates: with poll_interval > 0    *)
(* and max_wait > 0 and the clock moving on by at least poll_interval per  *)
(* iteration, it makes at least one and at most ceil(max_wait /            *)
(* poll_interval) status calls, whatever the responses are, and in the     *)
(* loop a next step is always there: another poll while the elapsed time   *)
(* is below max_wait, the timeout exit and nothing else once it is not.    *)
NPolls == Count({i \in Sent : KindAt(i) = "status"})
CeilDiv(a, b) == (a + b - 1) \div b

C17_PollTerminates ==
    (Uploading /\ max_wait > 0 /\ poll_interval > 0) =>
        /\ NPolls <= CeilDiv(max_wait, poll_interval)
        /\ pc = "poll" =>
               /\ now - start_time >= NPolls * poll_interval
               /\ ENABLED wait_poll \/ ENABLED wait_timeout
               /\ now - start_time >= max_wait => ~ENABLED wait_poll
        /\ (pc = "done" /\ Len(requests) >= 3 /\ CompleteSucceeded(responses[3])) =>
               NPolls >= 1

C17_Witness ==
    /\ Uploading
    /\ max_wait = 3
    /\ poll_interval = 1
    /\ NPolls = 3
    /\ \A i \in 4 .. 6 : NotReady(responses[i])
    /\ pc = "done"
    /\ Mentions(outcome.err, "timeout")

(* C18: in the poll loop a status response whose processing_status is      *)
(* none of "completed", "failed", "expired" (an unknown value, no data     *)
(* envelope, no processing_status field) is "not ready": it is followed by *)
(* a sleep of poll_interval, the call neither returns nor raises on it,    *)
(* and only the deadline ends the polling after it.                        *)
C18_OtherStatusKeepsPolling ==
    Uploading =>
        \A i \in Sent :
            (KindAt(i) = "status" /\ NotReady(responses[i])) =>
                /\ Len(sleeps) >= i - 3
                /\ sleeps[i - 3] = poll_interval
                /\ i = Len(requests) =>
                       \/ pc = "poll" /\ outcome = Running
                       \/ /\ pc = "done"
                          /\ RaisedKind("PixbinUploadError")
                          /\ Mentions(outcome.err, "timeout")
                          /\ now - start_time >= max_wait

C18_Witness ==
    /\ Uploading
    /\ Len(requests) = 6
    /\ ReportsProcessing(responses[4], "queued")
    /\ JsonObject(responses[5]) /\ "data" \in responses[5].keys
    /\ "processing_status" \notin responses[5].dkeys
    /\ JsonObject(responses[6]) /\ "data" \notin responses[6].keys
    /\ Len(sleeps) = 3

(* C19: within one upload_file call the image_id is the one of the start   *)
(* response: the complete payload, every status poll and the returned      *)
(* value all carry it.                                                     *)
C19_ImageIdFixed ==
    (Uploading /\ Len(requests) >= 2) =>
        /\ image_id = responses[1].id
        /\ \A i \in Sent : i >= 3 => requests[i].image_id = responses[1].id
        /\ outcome.kind = "returned" => outcome.value = responses[1].id

C19_Witness ==
    /\ Uploading
    /\ Len(requests) = 5
    /\ responses[1].id = "uuid-b"
    /\ requests[3].image_id = "uuid-b"
    /\ requests[5].image_id = "uuid-b"
    /\ outcome = Returned("uuid-b")

(* C20: download_transformed never issues more than max_retries GET        *)
(* requests; with max_retries <= 0 it issues none and raises the generic   *)
(* error "Failed to download transformed image" and returns nothing.       *)
C20_AtMostMaxRetries ==
    Transforming =>
        /\ Len(requests) <= (IF max_retries > 0 THEN max_retries ELSE 0)
        /\ max_retries <= 0 =>
               /\ requests = <<>>
               /\ outcome.kind # "returned"
               /\ pc = "attempt" => ENABLED transformed_exhausted
               /\ pc = "done" =>
                      /\ RaisedKind("PixbinError")
                      /\ outcome.err.words =
                             <<"Failed", "to", "download", "transformed", "image">>

C20_Witness ==
    /\ Transforming
    /\ max_retries = 0
    /\ pc = "done"
    /\ requests = <<>>
    /\ RaisedKind("PixbinError")

====
